---- MODULE Spec2Model ----
(***************************************************************************)
(* A model of the OFS -> S-111 orchestration scripts: the cycle-time       *)
(* resolution and the download manager of ofs.py, the operational          *)
(* pipeline run_ofs of ofs-ops.py (fetch, two parallel conversion jobs,    *)
(* publishing, cleanup), and main and download_and_process of ofs.py.      *)
(*                                                                         *)
(* Time is counted in whole minutes since 00:00 of day 0.  A cycle time is *)
(* such a minute count; the day of a time t is t \div MinutesPerDay.       *)
(***************************************************************************)
EXTENDS Integers, Sequences, FiniteSets, TLC

VARIABLES
    now,                \* the system clock (datetime.utcnow()), in minutes
    prof,               \* resolver harness: the profile [cycles, file_delay] under resolution
    res,                \* resolver harness: the result of the last resolution at `now`
    prev,               \* resolver harness: the result of the resolution before the last tick
    ofs_model,          \* run_ofs: the model id argument
    pc,                 \* run_ofs: position of the coordinator
    cycletime,          \* run_ofs: the local `cycletime` (line 53)
    fetch_cycletime,    \* run_ofs: the cycle time argument handed to ofs.download (line 57)
    netcdf_dir,         \* the model's input staging subdirectory: [exists, files]
    requested,          \* the sequence of URLs requested so far by download
    local_files,        \* download: the list local_files
    workers,            \* the two conversion jobs: [st, out, cyc, files]
    s111_dir,           \* the files of the output staging directory
    s111_file_paths,    \* run_ofs: the list s111_file_paths
    copy_idx,           \* run_ofs: number of entries of s111_file_paths already copied
    dest_dir,           \* the files of the dissemination tree: [dir, name]
    removed_nc,         \* the staged inputs removed by download's hygiene in this run
    removed_h5,         \* the product files removed from output staging in this run
    failure,            \* why the run ended with an exception ("" while it has not)
    ticks,              \* number of clock ticks since run_ofs was called
    args,               \* ofs.py main: the parsed command line and the paths it names
    made_dirs,          \* the directories created by os.makedirs in this run
    collab_calls,       \* the calls made into the index and conversion collaborators
    fs,                 \* two runs side by side: the file system they share, [dirs, files]
    runs,               \* two runs side by side: the state of each run of run_ofs
    chosen              \* cbofs.py: the cycle times chosen so far, [now, cycletime]

cycVars == <<prof, res, prev>>
runVars == <<ofs_model, pc, cycletime, fetch_cycletime, netcdf_dir, requested,
             local_files, workers, s111_dir, s111_file_paths, copy_idx, dest_dir,
             removed_nc, removed_h5, failure, ticks>>
mainVars == <<args, made_dirs, collab_calls>>
pairVars == <<fs, runs>>
cbVars == <<chosen>>
vars == <<now, prof, res, prev, ofs_model, pc, cycletime, fetch_cycletime,
          netcdf_dir, requested, local_files, workers, s111_dir, s111_file_paths,
          copy_idx, dest_dir, removed_nc, removed_h5, failure, ticks,
          args, made_dirs, collab_calls, fs, runs, chosen>>

---------------------------------------------------------------------------
(* Bounds of the model *)

\* the clock of the resolver harness runs over the days 1 .. MaxDay
MaxDay == 2
\* largest number of product files one conversion job returns
MaxOut == 2
\* largest number of clock ticks during one run of run_ofs
MaxTicks == 1

---------------------------------------------------------------------------
(* Time *)

MinutesPerHour == 60
MinutesPerDay == 1440

\* Python's None, for a cycle time
None == -1
\* a variable of the harness that holds no result yet
Unset == None - 1
\* the outcome of a lookup MODELS[ofs_model] for an id that is no key of MODELS
KeyError == None - 2
\* the outcome of iterating over a `cycles` value that is no sequence (line 286)
TypeError == None - 3

DayOf(t) == t \div MinutesPerDay
HourOf(t) == (t % MinutesPerDay) \div MinutesPerHour
MinuteOf(t) == t % MinutesPerHour

\* datetime.datetime(now.year, now.month, now.day, cycle)
DateTimeAt(t, cycle) == DayOf(t) * MinutesPerDay + cycle * MinutesPerHour

---------------------------------------------------------------------------
(* The model catalog MODELS of ofs.py *)

HTTP_SERVER_NOMADS == "nomads"
HTTP_SERVER_THREDDS == "thredds"

MODELTYPE_FVCOM == "fvcom"
MODELTYPE_HYCOM == "hycom"
MODELTYPE_POM == "pom"
MODELTYPE_ROMS == "roms"

\* list(range(a, b, step))
RECURSIVE Range(_, _, _)
Range(a, b, step) == IF a >= b THEN <<>> ELSE <<a>> \o Range(a + step, b, step)

Profile(server, path, name, hours, cyc, delay, type) ==
    [file_server |-> server, file_path |-> path, file_name |-> name,
     forecast_hours |-> hours, cycles |-> cyc, file_delay |-> delay,
     model_type |-> type]

MODELS ==
    [m \in {"cbofs", "gomofs", "dbofs", "tbofs", "negofs", "nwgofs", "ngofs", "sfbofs",
            "leofs", "nyofs", "nyofs_fg", "lmofs", "lhofs", "loofs", "lsofs", "rtofs",
            "wcofs"} |->
     CASE m = "cbofs" -> Profile(HTTP_SERVER_NOMADS, "NOMADS_PATH", "LOCAL_NOMADS",
                                 Range(1, 49, 1), <<0, 6, 12, 18>>, 85, MODELTYPE_ROMS)
       [] m = "gomofs" -> Profile(HTTP_SERVER_NOMADS, "NOMADS_PATH", "LOCAL_NOMADS",
                                 Range(3, 73, 3), <<0, 6, 12, 18>>, 134, MODELTYPE_ROMS)
       [] m = "dbofs" -> Profile(HTTP_SERVER_NOMADS, "NOMADS_PATH", "LOCAL_NOMADS",
                                 Range(1, 49, 1), <<0, 6, 12, 18>>, 80, MODELTYPE_ROMS)
       [] m = "tbofs" -> Profile(HTTP_SERVER_NOMADS, "NOMADS_PATH", "LOCAL_NOMADS",
                                 Range(1, 49, 1), <<0, 6, 12, 18>>, 74, MODELTYPE_ROMS)
       [] m = "negofs" -> Profile(HTTP_SERVER_NOMADS, "NOMADS_PATH", "LOCAL_NOMADS",
                                 Range(1, 49, 1), <<3, 9, 15, 21>>, 95, MODELTYPE_FVCOM)
       [] m = "nwgofs" -> Profile(HTTP_SERVER_NOMADS, "NOMADS_PATH", "LOCAL_NOMADS",
                                 Range(1, 49, 1), <<3, 9, 15, 21>>, 90, MODELTYPE_FVCOM)
       [] m = "ngofs" -> Profile(HTTP_SERVER_NOMADS, "NOMADS_PATH", "LOCAL_NOMADS",
                                 Range(1, 49, 1), <<3, 9, 15, 21>>, 50, MODELTYPE_FVCOM)
       [] m = "sfbofs" -> Profile(HTTP_SERVER_NOMADS, "NOMADS_PATH", "LOCAL_NOMADS",
                                 Range(1, 49, 1), <<3, 9, 15, 21>>, 55, MODELTYPE_FVCOM)
       [] m = "leofs" -> Profile(HTTP_SERVER_NOMADS, "NOMADS_PATH", "LOCAL_NOMADS",
                                 Range(1, 49, 1), <<0, 6, 12, 18>>, 100, MODELTYPE_FVCOM)
       [] m = "nyofs" -> Profile(HTTP_SERVER_THREDDS, "THREDDS_NYOFS_PATH", "LOCAL_THREDDS_NYOFS",
                                 Range(0, 53, 1), <<5, 11, 17, 23>>, 48, MODELTYPE_POM)
       [] m = "nyofs_fg" -> Profile(HTTP_SERVER_THREDDS, "THREDDS_NYOFS_PATH", "LOCAL_THREDDS_NYOFS",
                                 Range(0, 53, 1), <<5, 11, 17, 23>>, 48, MODELTYPE_POM)
       [] m = "lmofs" -> Profile(HTTP_SERVER_THREDDS, "THREDDS_GLOFS_PATH", "LOCAL_THREDDS_GLOFS",
                                 Range(0, 59, 1), <<0, 6, 12, 18>>, 100, MODELTYPE_POM)
       [] m = "lhofs" -> Profile(HTTP_SERVER_THREDDS, "THREDDS_GLOFS_PATH", "LOCAL_THREDDS_GLOFS",
                                 Range(0, 59, 1), <<0, 6, 12, 18>>, 100, MODELTYPE_POM)
       [] m = "loofs" -> Profile(HTTP_SERVER_THREDDS, "THREDDS_GLOFS_PATH", "LOCAL_THREDDS_GLOFS",
                                 Range(0, 59, 1), <<0, 6, 12, 18>>, 100, MODELTYPE_POM)
       [] m = "lsofs" -> Profile(HTTP_SERVER_THREDDS, "THREDDS_GLOFS_PATH", "LOCAL_THREDDS_GLOFS",
                                 Range(0, 59, 1), <<0, 6, 12, 18>>, 100, MODELTYPE_POM)
       [] m = "rtofs" -> Profile(HTTP_SERVER_NOMADS, "NOMADS_RTOFS_PATH", "LOCAL_OCS_RTOFS",
                                 Range(24, 96, 24), <<0>>, 100, MODELTYPE_HYCOM)
       [] m = "wcofs" -> Profile(HTTP_SERVER_THREDDS, "THREDDS_PATH", "LOCAL_THREDDS",
                                 Range(1, 21, 3), 3, 100, MODELTYPE_ROMS)]

\* the catalog models whose `cycles` value is a sequence of hours (wcofs holds the
\* bare integer 3, over which line 286 cannot iterate)
SeqCycleModels == DOMAIN MODELS \ {"wcofs"}

---------------------------------------------------------------------------
(* get_latest_cycletime, ofs.py lines 264-299 *)

\* insert x into the ascending sequence s
RECURSIVE Insert(_, _)
Insert(x, s) ==
    IF s = <<>> THEN <<x>>
    ELSE IF x <= Head(s) THEN <<x>> \o s
    ELSE <<Head(s)>> \o Insert(x, Tail(s))

SortedNoSort(s) == s

\* sorted(...) of line 286
RECURSIVE Sorted(_)
Sorted(s) == IF s = <<>> THEN <<>> ELSE Insert(Head(s), Sorted(Tail(s)))

\* line 286: today's cycle times, chronologically
today_cycletimes(t, cycles) ==
    Sorted([i \in 1 .. Len(cycles) |-> DateTimeAt(t, cycles[i])])

PotentialTodayOnly(t, cycles) == today_cycletimes(t, cycles)

\* lines 289-290: yesterday's cycle times, then today's
potential_cycletimes(t, cycles) ==
    LET today == today_cycletimes(t, cycles)
    IN  [i \in 1 .. Len(today) |-> today[i] - MinutesPerDay] \o today

AvailableNoDelay(t, potential_cycletime, file_delay) == t >= potential_cycletime

\* line 295: the file of the cycle should be available at time t
Available(t, potential_cycletime, file_delay) == t >= potential_cycletime + file_delay

\* lines 294-297: the search in reverse chronological order, from index i down
RECURSIVE ScanReversed(_, _, _, _)
ScanReversed(potential, i, t, file_delay) ==
    IF i = 0 THEN None
    ELSE IF Available(t, potential[i], file_delay) THEN potential[i]
    ELSE ScanReversed(potential, i - 1, t, file_delay)

\* lines 279-299, for the clock value t and the profile values cycles, file_delay
LatestCycletime(t, cycles, file_delay) ==
    LET potential == potential_cycletimes(t, cycles)
    IN  ScanReversed(potential, Len(potential), t, file_delay)

\* get_latest_cycletime(ofs_model) read at clock value t; KeyError when MODELS
\* has no such key (line 282), TypeError when `cycles` is the integer of wcofs
get_latest_cycletime(m, t) ==
    IF m \notin DOMAIN MODELS THEN KeyError
    ELSE IF m \notin SeqCycleModels THEN TypeError
    ELSE LatestCycletime(t, MODELS[m].cycles, MODELS[m].file_delay)

---------------------------------------------------------------------------
(* URL and file-name templates of ofs.py, lines 26-37.  A template is the   *)
(* record of what its text carries: the fixed part and which of the fields  *)
(* {model_str_uc}, {model_str_lc}, {forecast_str}, %Y%m%d and %H occur.     *)

Template(fixed, uc, lc, fstr, ymd, hh) ==
    [fixed |-> fixed, uc |-> uc, lc |-> lc, fstr |-> fstr, ymd |-> ymd, hh |-> hh]

HTTP_NETCDF_NOMADS_PATH_FORMAT ==
    Template("/pub/data/nccf/com/nos/prod/nos.fields", FALSE, TRUE, TRUE, TRUE, TRUE)
HTTP_NETCDF_NOMADS_RTOFS_PATH_FORMAT ==
    Template("/pub/data/nccf/com/prod/glo_3dz_6hrly_hvr_US_east", FALSE, TRUE, TRUE, TRUE, FALSE)
HTTP_NETCDF_THREDDS_PATH_FORMAT ==
    Template("/thredds/fileServer/NOAA/MODELS/nos.fields", TRUE, TRUE, TRUE, TRUE, TRUE)
HTTP_NETCDF_THREDDS_NYOFS_PATH_FORMAT ==
    Template("/thredds/fileServer/NOAA/MODELS/nos.fields.forecast", TRUE, TRUE, FALSE, TRUE, TRUE)
HTTP_NETCDF_THREDDS_GLOFS_PATH_FORMAT ==
    Template("/thredds/fileServer/NOAA/MODELS/glofs.fields.forecast", TRUE, TRUE, FALSE, TRUE, TRUE)

LocalNameWithoutForecast == Template("nos.fields.nc", FALSE, TRUE, FALSE, TRUE, TRUE)

LOCAL_NETCDF_NOMADS_FILENAME_FORMAT == Template("nos.fields.nc", FALSE, TRUE, TRUE, TRUE, TRUE)
LOCAL_NETCDF_THREDDS_FILENAME_FORMAT == Template("nos.fields.nc", FALSE, TRUE, TRUE, TRUE, TRUE)
LOCAL_NETCDF_THREDDS_NYOFS_FILENAME_FORMAT == Template("nos.fields.nc", FALSE, TRUE, FALSE, TRUE, TRUE)
LOCAL_NETCDF_THREDDS_GLOFS_FILENAME_FORMAT == Template("glofs.fields.nc", FALSE, TRUE, FALSE, TRUE, TRUE)
LOCAL_NETCDF_OCS_RTOFS_FILENAME_FORMAT ==
    Template("glo_3dz_6hrly_hvr_US_east.nc", FALSE, TRUE, TRUE, FALSE, FALSE)

\* the template a catalog entry names
TemplateOf(name) ==
    CASE name = "NOMADS_PATH" -> HTTP_NETCDF_NOMADS_PATH_FORMAT
      [] name = "NOMADS_RTOFS_PATH" -> HTTP_NETCDF_NOMADS_RTOFS_PATH_FORMAT
      [] name = "THREDDS_PATH" -> HTTP_NETCDF_THREDDS_PATH_FORMAT
      [] name = "THREDDS_NYOFS_PATH" -> HTTP_NETCDF_THREDDS_NYOFS_PATH_FORMAT
      [] name = "THREDDS_GLOFS_PATH" -> HTTP_NETCDF_THREDDS_GLOFS_PATH_FORMAT
      [] name = "LOCAL_NOMADS" -> LOCAL_NETCDF_NOMADS_FILENAME_FORMAT
      [] name = "LOCAL_THREDDS" -> LOCAL_NETCDF_THREDDS_FILENAME_FORMAT
      [] name = "LOCAL_THREDDS_NYOFS" -> LOCAL_NETCDF_THREDDS_NYOFS_FILENAME_FORMAT
      [] name = "LOCAL_THREDDS_GLOFS" -> LOCAL_NETCDF_THREDDS_GLOFS_FILENAME_FORMAT
      [] name = "LOCAL_OCS_RTOFS" -> LOCAL_NETCDF_OCS_RTOFS_FILENAME_FORMAT

\* str.upper() of a lower-case model id
Upper(m) == <<"upper", m>>

\* 'f{0:03d}'.format(forecast): the digits of the zero-padded forecast hour
forecast_str(forecast) ==
    IF forecast < 1000
    THEN <<forecast \div 100, (forecast \div 10) % 10, forecast % 10>>
    ELSE <<forecast \div 1000, (forecast \div 100) % 10, (forecast \div 10) % 10, forecast % 10>>

\* no value is supplied for a field
Blank == <<>>

\* cycletime.strftime(template).format(model_str_uc=uc, model_str_lc=lc,
\* forecast_str=fstr): the text keeps a supplied value only where the template
\* has the field
StrFormat(template, t, uc, lc, fstr) ==
    [fixed |-> template.fixed,
     uc |-> IF template.uc THEN uc ELSE Blank,
     lc |-> IF template.lc THEN lc ELSE Blank,
     fstr |-> IF template.fstr THEN fstr ELSE Blank,
     ymd |-> IF template.ymd THEN DayOf(t) ELSE None,
     hh |-> IF template.hh THEN HourOf(t) ELSE None]

\* the file of a directory listing: its name and its extension
File(name, ext) == [name |-> name, ext |-> ext]

\* one request of download: the URL and the local file it is written to
Request(m, t, uc, fstr) ==
    [url |-> [server |-> MODELS[m].file_server,
              path |-> StrFormat(TemplateOf(MODELS[m].file_path), t, uc, m, fstr)],
     local_file |-> File(StrFormat(TemplateOf(MODELS[m].file_name), t, Blank, m, fstr), "nc")]

RequestsEveryHour(m, t) ==
    LET hours == MODELS[m].forecast_hours
    IN  [i \in 1 .. Len(hours) |-> Request(m, t, Upper(m), forecast_str(hours[i]))]

\* download, lines 329-363: the requests one call makes, in order
Requests(m, t) ==
    LET hours == MODELS[m].forecast_hours
    IN  IF MODELS[m].file_server = HTTP_SERVER_NOMADS
        THEN [i \in 1 .. Len(hours) |-> Request(m, t, Blank, forecast_str(hours[i]))]
        ELSE IF MODELS[m].file_server = HTTP_SERVER_THREDDS
        THEN IF m = "nyofs_fg" THEN <<Request(m, t, Upper("nyofs"), Blank)>>
             ELSE IF m = "nyofs" THEN <<Request(m, t, Upper(m), Blank)>>
             ELSE <<Request(m, t, Upper(m), forecast_str(hours[Len(hours)]))>>
        ELSE <<>>

\* glob('{}/*.nc'.format(download_dir)), line 324
GlobNc(files) == {f \in files : f.ext = "nc"}

---------------------------------------------------------------------------
(* ofs-ops.py: configuration *)

\* max number of subprocess workers to spin up
MAXWORKERS == 2

\* Pool(processes=max(1, MAXWORKERS)), line 59
PoolSize == IF MAXWORKERS > 1 THEN MAXWORKERS ELSE 1

MODEL_INDEX_FILE ==
    [m \in {"cbofs", "dbofs", "nyofs", "rtofs_east", "rtofs_west"} |->
     CASE m = "cbofs" -> [index_default_path |-> "cbofs_index_default_500m.nc",
                          index_subset_path |-> "cbofs_index_band4v5_500m.nc"]
       [] m = "dbofs" -> [index_default_path |-> "dbofs_index_default_500m.nc",
                          index_subset_path |-> "dbofs_index_band4v5_500m.nc"]
       [] m = "nyofs" -> [index_default_path |-> "nyofs_index_default_500m.nc",
                          index_subset_path |-> "nyofs_index_band4v5_500m.nc"]
       [] m = "rtofs_east" -> [index_default_path |-> "rtofs_east_index_default_8500m.nc",
                               index_subset_path |-> "rtofs_east_index_band2v5_8500m.nc"]
       [] m = "rtofs_west" -> [index_default_path |-> "rtofs_west_index_default_8500m.nc",
                               index_subset_path |-> "rtofs_west_index_band2v5_8500m.nc"]]

\* ofs.MODEL_INDEX_CLASS and ofs.MODEL_FILE_CLASS, which ofs-ops.py reads at lines
\* 69-76 and which the ofs.py at hand does not define: the lookup table keyed by
\* model_type that yields the index and the model-file constructor.  The
\* constructors and S111Metadata (lines 78-79) only wrap their arguments.
ModelTypes == {MODELTYPE_FVCOM, MODELTYPE_HYCOM, MODELTYPE_POM, MODELTYPE_ROMS}
MODEL_INDEX_CLASS == [type \in ModelTypes |-> <<type, "IndexFile">>]
MODEL_FILE_CLASS == [type \in ModelTypes |-> <<type, "File">>]

\* the two conversion jobs, in the order of their submission
DefaultJob == 1
SubsetJob == 2
Jobs == {DefaultJob, SubsetJob}

\* index_default_path / index_subset_path, lines 62-63
IndexPath(m, j) ==
    IF j = DefaultJob THEN MODEL_INDEX_FILE[m].index_default_path
    ELSE MODEL_INDEX_FILE[m].index_subset_path

\* s111_dir of line 64 names the model's output staging directory; the product file
\* number k that job j writes there for cycle time t
Product(j, t, k) == File([job |-> j, cyc |-> t, k |-> k], "h5")

\* a product file left in output staging by an earlier run
StaleProduct == File([job |-> DefaultJob, cyc |-> 0, k |-> 1], "h5")

\* glob('{}/*.h5'.format(s111_dir)), line 99
GlobH5(files) == {f \in files : f.ext = "h5"}

\* cycletime.strftime(model_dir) joined with the file name, lines 65 and 94-95
Dst(m, t, path) == [dir |-> [ymd |-> DayOf(t), model |-> Upper(m)], name |-> path.name]

---------------------------------------------------------------------------
(* The resolver harness: get_latest_cycletime applied, at every clock value *)
(* of the days 1 .. MaxDay, to the catalog's profiles and to test profiles. *)

NowMin == MinutesPerDay
NowMax == (MaxDay + 1) * MinutesPerDay - 1

TestHours == {0, 6, 18, 23}
TestDelays == {0, 90, 420, 1500}
TestCycles == {<<h>> : h \in TestHours} \cup {<<a, b>> : a \in TestHours, b \in TestHours}

CatalogProfiles ==
    {[cycles |-> MODELS[m].cycles, file_delay |-> MODELS[m].file_delay] : m \in SeqCycleModels}
TestProfiles == [cycles : TestCycles, file_delay : TestDelays]
Profiles == CatalogProfiles \cup TestProfiles

NoProfile == [cycles |-> <<>>, file_delay |-> 0]

\* no command line of ofs.py main (the run is not one of ofs.py main)
NoArgs == <<>>

\* no two runs side by side
PairIdle == fs = [dirs |-> {}, files |-> {}] /\ runs = <<>>

\* no run of cbofs.py
CbIdle == chosen = <<>>

\* the state of run_ofs before it is called
RunIdle ==
    /\ ofs_model = ""
    /\ pc = "idle"
    /\ cycletime = None
    /\ fetch_cycletime = None
    /\ netcdf_dir = [exists |-> FALSE, files |-> {}]
    /\ requested = <<>>
    /\ local_files = <<>>
    /\ workers = <<>>
    /\ s111_dir = {}
    /\ s111_file_paths = <<>>
    /\ copy_idx = 0
    /\ dest_dir = {}
    /\ removed_nc = {}
    /\ removed_h5 = {}
    /\ failure = ""
    /\ ticks = 0
    /\ args = NoArgs
    /\ made_dirs = {}
    /\ collab_calls = <<>>

InitCycle ==
    /\ now \in NowMin .. NowMax
    /\ prof \in Profiles
    /\ res = Unset
    /\ prev = Unset
    /\ RunIdle
    /\ PairIdle
    /\ CbIdle

\* one call of get_latest_cycletime for the profile, reading the clock
Resolve ==
    /\ res = Unset
    /\ res' = LatestCycletime(now, prof.cycles, prof.file_delay)
    /\ UNCHANGED <<now, prof, prev>>
    /\ UNCHANGED runVars
    /\ UNCHANGED mainVars
    /\ UNCHANGED pairVars
    /\ UNCHANGED cbVars

\* the clock advances by one minute after a resolution
Tick ==
    /\ res # Unset
    /\ now < NowMax
    /\ now' = now + 1
    /\ prev' = res
    /\ res' = Unset
    /\ UNCHANGED prof
    /\ UNCHANGED runVars
    /\ UNCHANGED mainVars
    /\ UNCHANGED pairVars
    /\ UNCHANGED cbVars

NextCycle == Resolve \/ Tick

SpecCycle == InitCycle /\ [][NextCycle]_vars

---------------------------------------------------------------------------
(* run_ofs of ofs-ops.py, with ofs.download inlined at line 57 *)

\* the day on which the modelled runs start
StartDay == MinutesPerDay

\* the clock values at which a run starts: one minute before a cycle of the model
\* becomes available (between two such thresholds the resolution does not change)
StartNows(m) ==
    IF m \in SeqCycleModels
    THEN {StartDay + MODELS[m].cycles[i] * MinutesPerHour + MODELS[m].file_delay - 1 :
            i \in DOMAIN MODELS[m].cycles}
    ELSE {StartDay}

\* what the input staging subdirectory of the model may hold before the run: a raw
\* input of an earlier cycle and a file that is no raw input
OldInput(m) == File(StrFormat(LOCAL_NETCDF_NOMADS_FILENAME_FORMAT, 0, Blank, m, forecast_str(1)), "nc")
OtherFile == File(StrFormat(LOCAL_NETCDF_NOMADS_FILENAME_FORMAT, 0, Blank, "notes", Blank), "txt")
InitialNetcdfDirs(m) ==
    {[exists |-> FALSE, files |-> {}]}
        \cup {[exists |-> TRUE, files |-> S] : S \in SUBSET {OldInput(m), OtherFile}}

NoWorker == [st |-> "unsubmitted", index |-> <<>>, files |-> <<>>, cyc |-> None, out |-> <<>>]

\* the ways a run ends: main returns (with 1 after "returned1"), an exception
\* propagates out of main, or parser.error ends the process
Ended == {"returned", "returned1", "raised", "usage"}

\* the -o/--ofs_model values ofs-ops.py is started with: the ids it is configured
\* for, a catalog model it is not configured for, and an id no table knows
OpsModelArgs == DOMAIN MODEL_INDEX_FILE \cup {"gomofs", "nosuchofs"}

\* ofs-ops.py is started as a script
Init ==
    /\ ofs_model \in OpsModelArgs
    /\ now \in StartNows(ofs_model)
    /\ prof = NoProfile
    /\ res = Unset
    /\ prev = Unset
    /\ pc = "ops_main"
    /\ cycletime = None
    /\ fetch_cycletime = None
    /\ netcdf_dir \in InitialNetcdfDirs(ofs_model)
    /\ requested = <<>>
    /\ local_files = <<>>
    /\ workers = [j \in Jobs |-> NoWorker]
    /\ s111_dir \in SUBSET {StaleProduct}
    /\ s111_file_paths = <<>>
    /\ copy_idx = 0
    /\ dest_dir = {}
    /\ removed_nc = {}
    /\ removed_h5 = {}
    /\ failure = ""
    /\ ticks = 0
    /\ args = NoArgs
    /\ made_dirs = {}
    /\ collab_calls = <<>>
    /\ PairIdle
    /\ CbIdle

\* the run ends with the exception `why`
Raise(why) == pc' = "raised" /\ failure' = why

\* parser.error(message): argparse prints the usage and ends the process
ParserError == pc' = "usage" /\ UNCHANGED failure

\* main of ofs-ops.py, lines 109-117: the id is checked against MODEL_INDEX_FILE and
\* run_ofs is called
OpsMain ==
    /\ pc = "ops_main"
    /\ IF ofs_model = "" \/ ofs_model \notin DOMAIN MODEL_INDEX_FILE
       THEN ParserError
       ELSE pc' = "line53" /\ UNCHANGED failure
    /\ UNCHANGED <<now, cycVars, ofs_model, cycletime, fetch_cycletime, netcdf_dir,
                   requested, local_files, workers, s111_dir, s111_file_paths,
                   copy_idx, dest_dir, removed_nc, removed_h5, ticks>>
    /\ UNCHANGED mainVars
    /\ UNCHANGED pairVars
    /\ UNCHANGED cbVars

\* the system clock advances between the two reads of the clock, at line 53 and at
\* line 57 (an advance before the first read is a later start of the run, and the
\* clock is not read after line 57)
ClockTick ==
    /\ pc = "line57"
    /\ ticks < MaxTicks
    /\ now' = now + 1
    /\ ticks' = ticks + 1
    /\ UNCHANGED <<cycVars, ofs_model, pc, cycletime, fetch_cycletime, netcdf_dir,
                   requested, local_files, workers, s111_dir, s111_file_paths,
                   copy_idx, dest_dir, removed_nc, removed_h5, failure>>
    /\ UNCHANGED mainVars
    /\ UNCHANGED pairVars
    /\ UNCHANGED cbVars

\* lines 53-56
ResolveCycletime ==
    /\ pc = "line53"
    /\ LET c == get_latest_cycletime(ofs_model, now)
       IN  IF c = KeyError
           THEN Raise("KeyError") /\ UNCHANGED cycletime
           ELSE /\ cycletime' = c
                /\ pc' = IF c = None THEN "returned1" ELSE "line57"
                /\ UNCHANGED failure
    /\ UNCHANGED <<now, cycVars, ofs_model, fetch_cycletime, netcdf_dir, requested,
                   local_files, workers, s111_dir, s111_file_paths, copy_idx,
                   dest_dir, removed_nc, removed_h5, ticks>>
    /\ UNCHANGED mainVars
    /\ UNCHANGED pairVars
    /\ UNCHANGED cbVars

\* line 57: the cycle time argument of ofs.download, read at clock value t
FetchArgument(t) == get_latest_cycletime(ofs_model, t)

\* line 57: the argument of ofs.download is evaluated
EvalFetchArgument ==
    /\ pc = "line57"
    /\ fetch_cycletime' = FetchArgument(now)
    /\ pc' = "hygiene"
    /\ UNCHANGED <<now, cycVars, ofs_model, cycletime, netcdf_dir, requested,
                   local_files, workers, s111_dir, s111_file_paths, copy_idx,
                   dest_dir, removed_nc, removed_h5, failure, ticks>>
    /\ UNCHANGED mainVars
    /\ UNCHANGED pairVars
    /\ UNCHANGED cbVars

NextRequestAgain(reqs) == IF reqs = <<>> THEN 1 ELSE Len(reqs)

\* download, lines 332 and 352: the loop goes on with the next forecast hour, so the
\* next request is the one after those already made
NextRequest(reqs) == Len(reqs) + 1

DownloadRaisesAndGoesOn == failure' = "DownloadError" /\ UNCHANGED pc

\* download, lines 339-340 and 358-359: urlopen, open or copyfileobj raises and
\* nothing in download, download_and_process, run_ofs or main catches it
DownloadRaises == Raise("DownloadError")

HygieneTargetsNone(files) == {}

\* download, line 324: the files the hygiene step removes
HygieneTargets(files) == GlobNc(files)

\* download, lines 315-327: the subdirectory is created, or every *.nc file in it is
\* removed; os.remove may fail after some files were removed
Hygiene ==
    /\ pc = "hygiene"
    /\ IF ~netcdf_dir.exists
       THEN /\ netcdf_dir' = [exists |-> TRUE, files |-> {}]
            /\ made_dirs' = made_dirs \cup {"download_dir"}
            /\ pc' = "download"
            /\ UNCHANGED <<removed_nc, failure>>
       ELSE LET delete_files == HygieneTargets(netcdf_dir.files)
            IN  \/ /\ netcdf_dir' = [netcdf_dir EXCEPT !.files = @ \ delete_files]
                   /\ removed_nc' = delete_files
                   /\ pc' = "download"
                   /\ UNCHANGED <<failure, made_dirs>>
                \/ \E gone \in SUBSET delete_files :
                       /\ gone # delete_files
                       /\ netcdf_dir' = [netcdf_dir EXCEPT !.files = @ \ gone]
                       /\ removed_nc' = gone
                       /\ Raise("HygieneRemoveError")
                       /\ UNCHANGED made_dirs
    /\ UNCHANGED <<now, cycVars, ofs_model, cycletime, fetch_cycletime, requested,
                   local_files, workers, s111_dir, s111_file_paths, copy_idx,
                   dest_dir, removed_h5, ticks>>
    /\ UNCHANGED <<args, collab_calls>>
    /\ UNCHANGED pairVars
    /\ UNCHANGED cbVars

\* download, lines 329-361: the next request; it succeeds, or it fails before or
\* after the local file was opened for writing.  A cycle time of None fails at the
\* first strftime.
Download ==
    /\ pc = "download"
    /\ ofs_model \in DOMAIN MODELS
    /\ IF fetch_cycletime = None
       THEN /\ Raise("AttributeError")
            /\ UNCHANGED <<netcdf_dir, requested, local_files>>
       ELSE LET plan == Requests(ofs_model, fetch_cycletime)
                k == NextRequest(requested)
            IN  /\ k <= Len(plan)
                /\ requested' = Append(requested, plan[k].url)
                /\ \/ /\ netcdf_dir' = [netcdf_dir EXCEPT !.files = @ \cup {plan[k].local_file}]
                      /\ local_files' = Append(local_files, plan[k].local_file)
                      /\ UNCHANGED <<pc, failure>>
                   \/ /\ \/ netcdf_dir' = [netcdf_dir EXCEPT !.files = @ \cup {plan[k].local_file}]
                         \/ UNCHANGED netcdf_dir
                      /\ DownloadRaises
                      /\ UNCHANGED local_files
    /\ UNCHANGED <<now, cycVars, ofs_model, cycletime, fetch_cycletime, workers,
                   s111_dir, s111_file_paths, copy_idx, dest_dir, removed_nc,
                   removed_h5, ticks>>
    /\ UNCHANGED mainVars
    /\ UNCHANGED pairVars
    /\ UNCHANGED cbVars

FetchDoneAnytime == TRUE

\* download, lines 331-363: the loop over the forecast hours has made its last
\* request and download returns local_files
FetchDone == Len(requested) = Len(Requests(ofs_model, fetch_cycletime))

\* the arguments of the conversion job j, lines 69-85
Job(j) ==
    LET type == MODELS[ofs_model].model_type
    IN  [st |-> "running",
         index |-> <<MODEL_INDEX_CLASS[type], IndexPath(ofs_model, j)>>,
         files |-> [i \in 1 .. Len(local_files) |-> <<MODEL_FILE_CLASS[type], local_files[i]>>],
         cyc |-> cycletime,
         out |-> <<>>]

\* download returns (line 363) and lines 59-85 submit both jobs to the pool
SubmitJobs ==
    /\ pc = "download"
    /\ fetch_cycletime # None
    /\ FetchDone
    /\ workers' = [j \in Jobs |-> Job(j)]
    /\ pc' = "get1"
    /\ UNCHANGED <<now, cycVars, ofs_model, cycletime, fetch_cycletime, netcdf_dir,
                   requested, local_files, s111_dir, s111_file_paths, copy_idx,
                   dest_dir, removed_nc, removed_h5, failure, ticks>>
    /\ UNCHANGED mainVars
    /\ UNCHANGED pairVars
    /\ UNCHANGED cbVars

\* s111.model_to_s111 in a pool worker: the job writes n product files to output
\* staging and returns their paths, or raises after writing them
JobReturns(j) ==
    /\ workers[j].st = "running"
    /\ Cardinality({i \in Jobs : i < j /\ workers[i].st = "running"}) < PoolSize
    /\ \E n \in 0 .. MaxOut, ok \in BOOLEAN :
        LET out == [k \in 1 .. n |-> Product(j, workers[j].cyc, k)]
        IN  /\ s111_dir' = s111_dir \cup {out[k] : k \in 1 .. n}
            /\ workers' = [workers EXCEPT ![j].st = IF ok THEN "ok" ELSE "failed",
                                          ![j].out = IF ok THEN out ELSE <<>>]
    /\ UNCHANGED <<now, cycVars, ofs_model, pc, cycletime, fetch_cycletime, netcdf_dir,
                   requested, local_files, s111_file_paths, copy_idx, dest_dir,
                   removed_nc, removed_h5, failure, ticks>>
    /\ UNCHANGED mainVars
    /\ UNCHANGED pairVars
    /\ UNCHANGED cbVars

\* the process ends while a job is still running: the pool's worker is terminated
PoolTerminates(j) ==
    /\ pc \in Ended
    /\ workers[j].st = "running"
    /\ workers' = [workers EXCEPT ![j].st = "terminated"]
    /\ UNCHANGED <<now, cycVars, ofs_model, pc, cycletime, fetch_cycletime, netcdf_dir,
                   requested, local_files, s111_dir, s111_file_paths, copy_idx,
                   dest_dir, removed_nc, removed_h5, failure, ticks>>
    /\ UNCHANGED mainVars
    /\ UNCHANGED pairVars
    /\ UNCHANGED cbVars

GetReadyAlways(j) == TRUE

GetBlocksForever(j) == FALSE

\* AsyncResult.get() blocks until the job has returned
GetReady(j) == workers[j].st \in {"ok", "failed"}

GetRaisesNever(j) == FALSE

\* AsyncResult.get() re-raises the exception of a job that failed
GetRaises(j) == workers[j].st = "failed"

ExtendedKeep(paths, out) == paths

\* line 90: s111_file_paths.extend(...)
Extended(paths, out) == paths \o out

\* lines 89-90 for worker j: w.get() returns the job's list, or raises its exception
Get(j) ==
    /\ pc = IF j = DefaultJob THEN "get1" ELSE "get2"
    /\ GetReady(j)
    /\ IF GetRaises(j)
       THEN Raise("ConversionError") /\ UNCHANGED s111_file_paths
       ELSE /\ s111_file_paths' = Extended(s111_file_paths, workers[j].out)
            /\ pc' = IF j = DefaultJob THEN "get2" ELSE "copy"
            /\ UNCHANGED failure
    /\ UNCHANGED <<now, cycVars, ofs_model, cycletime, fetch_cycletime, netcdf_dir,
                   requested, local_files, workers, s111_dir, copy_idx, dest_dir,
                   removed_nc, removed_h5, ticks>>
    /\ UNCHANGED mainVars
    /\ UNCHANGED pairVars
    /\ UNCHANGED cbVars

SourceAfterMove(files, path) == files \ {path}

\* shutil.copyfile(s111_file_path, dst), line 96: what output staging holds after
\* the file was copied
SourceAfterCopy(files, path) == files

\* lines 93-96: the next file is copied to the dissemination directory, or
\* shutil.copyfile raises
Copy ==
    /\ pc = "copy"
    /\ copy_idx < Len(s111_file_paths)
    /\ LET s111_file_path == s111_file_paths[copy_idx + 1]
       IN  \/ /\ s111_file_path \in s111_dir
              /\ dest_dir' = dest_dir \cup {Dst(ofs_model, cycletime, s111_file_path)}
              /\ s111_dir' = SourceAfterCopy(s111_dir, s111_file_path)
              /\ copy_idx' = copy_idx + 1
              /\ UNCHANGED <<pc, failure>>
           \/ /\ Raise("CopyError")
              /\ UNCHANGED <<dest_dir, s111_dir, copy_idx>>
    /\ UNCHANGED <<now, cycVars, ofs_model, cycletime, fetch_cycletime, netcdf_dir,
                   requested, local_files, workers, s111_file_paths,
                   removed_nc, removed_h5, ticks>>
    /\ UNCHANGED mainVars
    /\ UNCHANGED pairVars
    /\ UNCHANGED cbVars

CopyLoopDoneAnytime == TRUE

\* the loop of lines 93-96 has copied every entry of s111_file_paths
CopyLoopDone == copy_idx = Len(s111_file_paths)

InputsPurged(dir) == [dir EXCEPT !.files = @ \ GlobNc(@)]

\* lines 99-101: the glob and the removal name s111_dir only, so that the input
\* staging subdirectory is after the cleanup what it was before
InputsAfterCleanup(dir) == dir

\* lines 99-101, after the last copy: every *.h5 file of output staging is removed;
\* os.remove may fail after some files were removed
Cleanup ==
    /\ pc = "copy"
    /\ CopyLoopDone
    /\ netcdf_dir' = InputsAfterCleanup(netcdf_dir)
    /\ LET delete_files == GlobH5(s111_dir)
       IN  \/ /\ s111_dir' = s111_dir \ delete_files
              /\ removed_h5' = delete_files
              /\ pc' = "returned"
              /\ UNCHANGED failure
           \/ \E gone \in SUBSET delete_files :
                  /\ gone # delete_files
                  /\ s111_dir' = s111_dir \ gone
                  /\ removed_h5' = gone
                  /\ Raise("CleanupRemoveError")
    /\ UNCHANGED <<now, cycVars, ofs_model, cycletime, fetch_cycletime,
                   requested, local_files, workers, s111_file_paths, copy_idx,
                   dest_dir, removed_nc, ticks>>
    /\ UNCHANGED mainVars
    /\ UNCHANGED pairVars
    /\ UNCHANGED cbVars

Next ==
    \/ OpsMain
    \/ ClockTick
    \/ ResolveCycletime
    \/ EvalFetchArgument
    \/ Hygiene
    \/ Download
    \/ SubmitJobs
    \/ \E j \in Jobs : JobReturns(j)
    \/ \E j \in Jobs : PoolTerminates(j)
    \/ \E j \in Jobs : Get(j)
    \/ Copy
    \/ Cleanup

Spec == Init /\ [][Next]_vars

\* the steps of the coordinator, the single thread that runs main and run_ofs: it runs
\* whenever it is not blocked in a download or in AsyncResult.get()
Coordinator ==
    \/ OpsMain
    \/ ResolveCycletime
    \/ EvalFetchArgument
    \/ Hygiene
    \/ Download
    \/ SubmitJobs
    \/ \E j \in Jobs : Get(j)
    \/ Copy
    \/ Cleanup

\* the starts of ofs-ops.py followed under fair scheduling: every model id, at the
\* earliest of the model's start times, with a staging subdirectory that holds an
\* old raw input and another file
InitFair ==
    /\ Init
    /\ \A t \in StartNows(ofs_model) : now <= t
    /\ netcdf_dir = [exists |-> TRUE, files |-> {OldInput(ofs_model), OtherFile}]

\* a run in which every download and every conversion job that has been started
\* returns, and in which the coordinator and the pool's workers are scheduled fairly
SpecFair ==
    /\ InitFair
    /\ [][Next]_vars
    /\ WF_vars(Coordinator)
    /\ \A j \in Jobs : WF_vars(JobReturns(j))

---------------------------------------------------------------------------
(* main and download_and_process of ofs.py, run as a script *)

\* a -c/--cycletime value that strptime('%Y%m%d%H') does not accept (line 481)
Malformed == None - 4

\* the -o/--ofs_model values: every catalog id and an id the catalog does not have
MainModelArgs == DOMAIN MODELS \cup {"nosuchofs"}

\* the -code/--data_coding_format values: absent (None) or the text of an integer
DataCodingFormatArgs == {None} \cup (1 .. 5)

\* the -c/--cycletime values: absent, malformed, or 03h and 06h of the start day
CycletimeHours == {3, 6}
CycletimeArgs == {None, Malformed} \cup {DateTimeAt(StartDay, h) : h \in CycletimeHours}

\* the -t/--target_cellsize_meters values
CellsizeArgs == {None, 500}

\* a raw model output file named on the command line
GivenFile(k) == File(StrFormat(LOCAL_NETCDF_NOMADS_FILENAME_FORMAT, 0, Blank, "given", forecast_str(k)), "nc")

\* the -m/--model_file_path values (nargs='+'): absent, one path, two paths
NoPaths == <<>>
ModelFilePathArgs == {NoPaths, <<GivenFile(1)>>, <<GivenFile(1), GivenFile(2)>>}

\* the -i/--index_file_path values: absent, a path with no file, an existing file
IndexFilePathArgs == {"None", "missing", "file"}

\* the -s/--s111_dir values: no directory, a directory without and with the
\* model's subdirectory
S111DirArgs == {"missing", "dir", "dir_with_model_dir"}

\* the -d/--download_dir values: absent or no directory, a directory
DownloadDirArgs == {"missing", "dir"}

MainArgs ==
    {a \in [ofs_model : MainModelArgs,
            data_coding_format : DataCodingFormatArgs,
            cycletime : CycletimeArgs,
            build_index : BOOLEAN,
            target_cellsize_meters : CellsizeArgs,
            model_file_path : ModelFilePathArgs,
            index_file_path : IndexFilePathArgs,
            s111_dir : S111DirArgs,
            download_dir : DownloadDirArgs] :
        ~a.build_index => a.target_cellsize_meters = None}

\* the clock values at which ofs.py is started without -c: the minute before and
\* the minute at which the 00h cycle of a model with file_delay 100 is available
MainNows == {StartDay + 99, StartDay + 100}

\* ofs.py is started as a script with the command line args
InitMain ==
    /\ args \in MainArgs
    /\ now \in IF args.cycletime = None THEN MainNows ELSE {StartDay}
    /\ prof = NoProfile
    /\ res = Unset
    /\ prev = Unset
    /\ ofs_model = ""
    /\ pc = "main"
    /\ cycletime = None
    /\ fetch_cycletime = None
    /\ netcdf_dir \in IF args.download_dir = "dir"
                      THEN {[exists |-> FALSE, files |-> {}],
                            [exists |-> TRUE, files |-> {OldInput(args.ofs_model), OtherFile}]}
                      ELSE {[exists |-> FALSE, files |-> {}]}
    /\ requested = <<>>
    /\ local_files = <<>>
    /\ workers = <<>>
    /\ s111_dir = {}
    /\ s111_file_paths = <<>>
    /\ copy_idx = 0
    /\ dest_dir = {}
    /\ removed_nc = {}
    /\ removed_h5 = {}
    /\ failure = ""
    /\ ticks = 0
    /\ made_dirs = {}
    /\ collab_calls = <<>>
    /\ PairIdle
    /\ CbIdle

\* main, lines 463-491: the model id is checked against MODELS, the data coding
\* format is converted with int(), and the cycle time is parsed or resolved
MainArguments ==
    /\ pc = "main"
    /\ ofs_model' = args.ofs_model
    /\ IF args.ofs_model = "" \/ args.ofs_model \notin DOMAIN MODELS
       THEN ParserError /\ UNCHANGED cycletime
       ELSE IF args.data_coding_format = None
       THEN Raise("TypeError") /\ UNCHANGED cycletime
       ELSE IF args.cycletime = Malformed
       THEN ParserError /\ UNCHANGED cycletime
       ELSE IF args.cycletime # None
       THEN cycletime' = args.cycletime /\ pc' = "line493" /\ UNCHANGED failure
       ELSE LET c == get_latest_cycletime(args.ofs_model, now)
            IN  IF c = TypeError
                THEN Raise("TypeError") /\ UNCHANGED cycletime
                ELSE /\ cycletime' = c
                     /\ pc' = IF c = None THEN "returned1" ELSE "line493"
                     /\ UNCHANGED failure
    /\ UNCHANGED <<now, cycVars, fetch_cycletime, netcdf_dir, requested, local_files,
                   workers, s111_dir, s111_file_paths, copy_idx, dest_dir, removed_nc,
                   removed_h5, ticks, args, made_dirs, collab_calls>>
    /\ UNCHANGED pairVars
    /\ UNCHANGED cbVars

\* the if/elif chains on model_type (lines 396-418, 509-520, 551-562, 589-596):
\* the index and the model-file constructor of the type
IndexFileCtor(type) ==
    CASE type = MODELTYPE_FVCOM -> <<MODELTYPE_FVCOM, "IndexFile">>
      [] type = MODELTYPE_ROMS -> <<MODELTYPE_ROMS, "IndexFile">>
      [] type = MODELTYPE_POM -> <<MODELTYPE_POM, "IndexFile">>
      [] type = MODELTYPE_HYCOM -> <<MODELTYPE_HYCOM, "IndexFile">>
ModelFileCtorAlwaysRoms(type) == <<MODELTYPE_ROMS, "File">>

ModelFileCtor(type) ==
    CASE type = MODELTYPE_FVCOM -> <<MODELTYPE_FVCOM, "File">>
      [] type = MODELTYPE_ROMS -> <<MODELTYPE_ROMS, "File">>
      [] type = MODELTYPE_POM -> <<MODELTYPE_POM, "File">>
      [] type = MODELTYPE_HYCOM -> <<MODELTYPE_HYCOM, "File">>

\* index_file = None (lines 598 and 607)
NullIndex == <<>>

\* the index handle built from -i/--index_file_path
IndexFile(type, path) == <<IndexFileCtor(type), path>>

\* the model-file handles built from a list of paths
ModelFiles(type, paths) == [i \in 1 .. Len(paths) |-> <<ModelFileCtor(type), paths[i]>>]

\* lines 553-564 and 590-599: the file handed to the conversion on the explicit
\* path is args.model_file_path[0]
ExplicitFiles(paths) == <<paths[1]>>

\* one call of s111.convert_to_s111 or of index_file.init_nc
CollabCall(op, index, files, cyc, format) ==
    [op |-> op, index |-> index, files |-> files, cyc |-> cyc, format |-> format]

\* lines 539-544 and 576-581: os.makedirs of the model's output subdirectory
MakeS111Dir == IF args.s111_dir = "dir" THEN {"s111_dir"} ELSE {}

\* lines 546-573 and 583-609, after the output subdirectory was made: the explicit
\* files are converted, or download_and_process is called
ExplicitOrDownload ==
    /\ made_dirs' = made_dirs \cup MakeS111Dir
    /\ IF args.model_file_path # NoPaths
       THEN /\ IF args.cycletime = None THEN ParserError
               ELSE pc' = "convert" /\ UNCHANGED failure
            /\ UNCHANGED fetch_cycletime
       ELSE IF args.download_dir # "dir"
       THEN ParserError /\ UNCHANGED fetch_cycletime
       ELSE /\ pc' = "hygiene"
            /\ fetch_cycletime' = cycletime
            /\ UNCHANGED failure

\* main, lines 493-611: the dispatch on build_index and on the data coding format
MainDispatch ==
    /\ pc = "line493"
    /\ IF args.build_index
       THEN /\ IF args.target_cellsize_meters = None \/ args.model_file_path = NoPaths
               THEN ParserError
               ELSE pc' = "init_nc" /\ UNCHANGED failure
            /\ UNCHANGED <<made_dirs, fetch_cycletime>>
       ELSE IF args.s111_dir = "missing"
       THEN ParserError /\ UNCHANGED <<made_dirs, fetch_cycletime>>
       ELSE IF args.data_coding_format = 2
       THEN IF args.index_file_path = "None"
            THEN Raise("TypeError") /\ UNCHANGED <<made_dirs, fetch_cycletime>>
            ELSE IF args.index_file_path = "missing"
            THEN ParserError /\ UNCHANGED <<made_dirs, fetch_cycletime>>
            ELSE ExplicitOrDownload
       ELSE IF args.data_coding_format = 3
       THEN ExplicitOrDownload
       ELSE pc' = "returned" /\ UNCHANGED <<failure, made_dirs, fetch_cycletime>>
    /\ UNCHANGED <<now, cycVars, ofs_model, cycletime, netcdf_dir, requested,
                   local_files, workers, s111_dir, s111_file_paths, copy_idx,
                   dest_dir, removed_nc, removed_h5, ticks, args, collab_calls>>
    /\ UNCHANGED pairVars
    /\ UNCHANGED cbVars

\* a call into a collaborator returns, and main returns 0, or it raises
CollabReturns ==
    \/ pc' = "returned" /\ UNCHANGED failure
    \/ Raise("ConversionError")

\* main, lines 509-530: the index file is built from the first model file
BuildIndex ==
    /\ pc = "init_nc"
    /\ LET type == MODELS[ofs_model].model_type
       IN  collab_calls' = Append(collab_calls,
               CollabCall("init_nc", IndexFile(type, args.index_file_path),
                          <<ModelFiles(type, args.model_file_path)[1]>>,
                          None, args.data_coding_format))
    /\ CollabReturns
    /\ UNCHANGED <<now, cycVars, ofs_model, cycletime, fetch_cycletime, netcdf_dir,
                   requested, local_files, workers, s111_dir, s111_file_paths,
                   copy_idx, dest_dir, removed_nc, removed_h5, ticks, args, made_dirs>>
    /\ UNCHANGED pairVars
    /\ UNCHANGED cbVars

\* main, lines 551-565 and 589-600: the conversion of the explicit files
ConvertExplicit ==
    /\ pc = "convert"
    /\ LET type == MODELS[ofs_model].model_type
           index_file == IF args.data_coding_format = 2
                         THEN IndexFile(type, args.index_file_path)
                         ELSE NullIndex
       IN  collab_calls' = Append(collab_calls,
               CollabCall("convert_to_s111", index_file,
                          ModelFiles(type, ExplicitFiles(args.model_file_path)),
                          cycletime, args.data_coding_format))
    /\ CollabReturns
    /\ UNCHANGED <<now, cycVars, ofs_model, cycletime, fetch_cycletime, netcdf_dir,
                   requested, local_files, workers, s111_dir, s111_file_paths,
                   copy_idx, dest_dir, removed_nc, removed_h5, ticks, args, made_dirs>>
    /\ UNCHANGED pairVars
    /\ UNCHANGED cbVars

\* download_and_process, lines 390-391: download returns its list local_files
DownloadReturns ==
    /\ pc = "download"
    /\ fetch_cycletime # None
    /\ FetchDone
    /\ pc' = "line393"
    /\ UNCHANGED <<now, cycVars, ofs_model, cycletime, fetch_cycletime, netcdf_dir,
                   requested, local_files, workers, s111_dir, s111_file_paths,
                   copy_idx, dest_dir, removed_nc, removed_h5, failure, ticks>>
    /\ UNCHANGED mainVars
    /\ UNCHANGED pairVars
    /\ UNCHANGED cbVars

\* download_and_process, lines 393-442: the handles are built and the conversion is
\* called; the local index_file is bound only in the branch of format 2 (lines
\* 397-415), so for format 3 its use at line 441 raises UnboundLocalError
Process ==
    /\ pc = "line393"
    /\ IF args.data_coding_format = 2
       THEN /\ LET type == MODELS[ofs_model].model_type
               IN  collab_calls' = Append(collab_calls,
                       CollabCall("convert_to_s111", IndexFile(type, args.index_file_path),
                                  ModelFiles(type, local_files),
                                  cycletime, args.data_coding_format))
            /\ CollabReturns
       ELSE Raise("UnboundLocalError") /\ UNCHANGED collab_calls
    /\ UNCHANGED <<now, cycVars, ofs_model, cycletime, fetch_cycletime, netcdf_dir,
                   requested, local_files, workers, s111_dir, s111_file_paths,
                   copy_idx, dest_dir, removed_nc, removed_h5, ticks, args, made_dirs>>
    /\ UNCHANGED pairVars
    /\ UNCHANGED cbVars

NextMain ==
    \/ MainArguments
    \/ MainDispatch
    \/ BuildIndex
    \/ ConvertExplicit
    \/ Hygiene
    \/ Download
    \/ DownloadReturns
    \/ Process

SpecMain == InitMain /\ [][NextMain]_vars

\* the exit status of the process: parser.error ends it with status 2, an
\* exception that leaves main ends it with status 1, and the last line of either
\* script, `main()`, drops what main returns, so that a return ends it with 0
exit_code ==
    CASE pc = "usage" -> 2
      [] pc = "raised" -> 1
      [] pc \in {"returned", "returned1"} -> 0
      [] OTHER -> None

---------------------------------------------------------------------------
(* Two runs of run_ofs side by side, for two different model ids, on one    *)
(* file system.  A directory is the record of the parts of its path that    *)
(* vary: the root, the day of a %Y%m%d field and the model id as it occurs. *)

\* largest number of requests of a fetch that the two-run specification follows
MaxFetch == 2

\* largest number of product files a conversion job returns in the two-run
\* specification
MaxPairOut == 1

Runs == {1, 2}

Dir(root, ymd, model) == [root |-> root, ymd |-> ymd, model |-> model]

\* ofs_model.lower(); the id run_ofs gets was lower-cased at line 115 of ofs-ops.py
Lower(m) == <<"lower", m>>

\* download, lines 315-317, with the download_dir '{}netcdf/' of ofs-ops.py line 57
NetcdfPath(m) == Dir("/opt/s100/netcdf/", None, Lower(m))

S111PathShared(m) == Dir("/opt/s100/hdf5/", None, <<>>)

\* s111_dir = '{}hdf5/{}/'.format(SOURCE_PATH, ofs_model), ofs-ops.py line 64
S111Path(m) == Dir("/opt/s100/hdf5/", None, Lower(m))

\* cycletime.strftime(model_dir), ofs-ops.py lines 65 and 94-95, with
\* model_dir = DEST_PATH + ofs_model.upper()
DestPath(m, t) == Dir("/win/ofsdata/HDF5/S111_1.0.0/", DayOf(t), Upper(m))

Entry(dir, file) == [dir |-> dir, file |-> file]

\* the files of the directory dir
FilesIn(f, dir) == {e.file : e \in {x \in f.files : x.dir = dir}}

Remove(f, dir, files) == [f EXCEPT !.files = @ \ {Entry(dir, x) : x \in files}]
Write(f, dir, file) == [f EXCEPT !.files = @ \cup {Entry(dir, file)}]

\* the ids for which both ofs-ops.py is configured and the catalog has a profile
PairModels == DOMAIN MODEL_INDEX_FILE \cap DOMAIN MODELS

\* the clock value at which both runs are started
PairNow == StartDay + 12 * MinutesPerHour

\* the requests of the fetch that are followed
PairPlan(m, t) ==
    LET plan == Requests(m, t)
    IN  SubSeq(plan, 1, IF Len(plan) < MaxFetch THEN Len(plan) ELSE MaxFetch)

\* the pairs of different ids, each pair once (the two runs are alike)
PairChoices == {<<"cbofs", "dbofs">>, <<"dbofs", "nyofs">>, <<"nyofs", "cbofs">>}

PairRun(m) ==
    [model |-> m, pc |-> "line53", cyc |-> None, plan |-> <<>>, requested |-> <<>>,
     jobs |-> [j \in Jobs |-> [st |-> "unsubmitted", out |-> <<>>]],
     paths |-> <<>>, copied |-> 0]

\* what the directories of model m hold after an earlier run: an old raw input and
\* a product
LeftOver(m) == {Entry(NetcdfPath(m), OldInput(m)), Entry(S111Path(m), StaleProduct)}

InitPair ==
    /\ now = PairNow
    /\ prof = NoProfile
    /\ res = Unset
    /\ prev = Unset
    /\ RunIdle
    /\ CbIdle
    /\ \E ms \in PairChoices :
          /\ ms[1] \in PairModels /\ ms[2] \in PairModels
          /\ runs = [r \in Runs |-> PairRun(ms[r])]
          /\ \E old \in {{}, LeftOver(ms[1]) \cup LeftOver(ms[2])} :
                fs = [dirs |-> {e.dir : e \in old}, files |-> old]

PairFrame == UNCHANGED <<now, cycVars, runVars, mainVars, cbVars>>

\* run r goes on at position p
Goes(r, p) == runs' = [runs EXCEPT ![r].pc = p]

\* lines 53-57 of run r, and the requests its fetch will make
PairResolve(r) ==
    /\ runs[r].pc = "line53"
    /\ LET c == get_latest_cycletime(runs[r].model, now)
       IN  runs' = [runs EXCEPT ![r].cyc = c,
                                ![r].plan = IF c = None THEN <<>>
                                            ELSE PairPlan(runs[r].model, c),
                                ![r].pc = IF c = None THEN "returned1" ELSE "hygiene"]
    /\ UNCHANGED fs
    /\ PairFrame

\* download, lines 315-327, of run r
PairHygiene(r) ==
    /\ runs[r].pc = "hygiene"
    /\ LET download_dir == NetcdfPath(runs[r].model)
       IN  IF download_dir \notin fs.dirs
           THEN /\ fs' = [fs EXCEPT !.dirs = @ \cup {download_dir}]
                /\ Goes(r, "download")
           ELSE LET delete_files == HygieneTargets(FilesIn(fs, download_dir))
                IN  \/ /\ fs' = Remove(fs, download_dir, delete_files)
                       /\ Goes(r, "download")
                    \/ \E gone \in SUBSET delete_files :
                           /\ gone # delete_files
                           /\ fs' = Remove(fs, download_dir, gone)
                           /\ Goes(r, "raised")
    /\ PairFrame

\* download, lines 329-361, of run r: the next request
PairDownload(r) ==
    /\ runs[r].pc = "download"
    /\ LET plan == runs[r].plan
           k == NextRequest(runs[r].requested)
           written == Write(fs, NetcdfPath(runs[r].model), plan[k].local_file)
       IN  /\ k <= Len(plan)
           /\ \/ /\ fs' = written
                 /\ runs' = [runs EXCEPT ![r].requested = Append(@, plan[k].url)]
              \/ /\ fs' \in {fs, written}
                 /\ runs' = [runs EXCEPT ![r].requested = Append(@, plan[k].url),
                                          ![r].pc = "raised"]
    /\ PairFrame

\* lines 59-85 of run r: both jobs are submitted
PairSubmit(r) ==
    /\ runs[r].pc = "download"
    /\ Len(runs[r].requested) = Len(runs[r].plan)
    /\ runs' = [runs EXCEPT ![r].pc = "get1",
                            ![r].jobs = [j \in Jobs |-> [st |-> "running", out |-> <<>>]]]
    /\ UNCHANGED fs
    /\ PairFrame

\* job j of run r writes its product files to the s111_dir it was given (lines 82
\* and 85) and returns their paths, or raises
PairJobReturns(r, j) ==
    /\ runs[r].jobs[j].st = "running"
    /\ \E n \in 0 .. MaxPairOut, ok \in BOOLEAN :
        LET out == [k \in 1 .. n |-> Product(j, runs[r].cyc, k)]
            s111 == S111Path(runs[r].model)
        IN  /\ fs' = [fs EXCEPT !.dirs = @ \cup {s111},
                                !.files = @ \cup {Entry(s111, out[k]) : k \in 1 .. n}]
            /\ runs' = [runs EXCEPT ![r].jobs[j] =
                           [st |-> IF ok THEN "ok" ELSE "failed",
                            out |-> IF ok THEN out ELSE <<>>]]
    /\ PairFrame

\* lines 89-90 of run r for worker j
PairGet(r, j) ==
    /\ runs[r].pc = IF j = DefaultJob THEN "get1" ELSE "get2"
    /\ runs[r].jobs[j].st \in {"ok", "failed"}
    /\ IF runs[r].jobs[j].st = "failed"
       THEN Goes(r, "raised")
       ELSE runs' = [runs EXCEPT ![r].paths = Extended(@, runs[r].jobs[j].out),
                                 ![r].pc = IF j = DefaultJob THEN "get2" ELSE "copy"]
    /\ UNCHANGED fs
    /\ PairFrame

\* lines 93-96 of run r: the next copy
PairCopy(r) ==
    /\ runs[r].pc = "copy"
    /\ runs[r].copied < Len(runs[r].paths)
    /\ LET s111_file_path == runs[r].paths[runs[r].copied + 1]
           dst == DestPath(runs[r].model, runs[r].cyc)
       IN  \/ /\ s111_file_path \in FilesIn(fs, S111Path(runs[r].model))
              /\ fs' = [fs EXCEPT !.dirs = @ \cup {dst},
                                  !.files = @ \cup {Entry(dst, s111_file_path)}]
              /\ runs' = [runs EXCEPT ![r].copied = @ + 1]
           \/ /\ UNCHANGED fs
              /\ Goes(r, "raised")
    /\ PairFrame

\* lines 99-101 of run r
PairCleanup(r) ==
    /\ runs[r].pc = "copy"
    /\ runs[r].copied = Len(runs[r].paths)
    /\ LET s111 == S111Path(runs[r].model)
           delete_files == GlobH5(FilesIn(fs, s111))
       IN  \/ /\ fs' = Remove(fs, s111, delete_files)
              /\ Goes(r, "returned")
           \/ \E gone \in SUBSET delete_files :
                  /\ gone # delete_files
                  /\ fs' = Remove(fs, s111, gone)
                  /\ Goes(r, "raised")
    /\ PairFrame

NextPair ==
    \E r \in Runs :
        \/ PairResolve(r)
        \/ PairHygiene(r)
        \/ PairDownload(r)
        \/ PairSubmit(r)
        \/ \E j \in Jobs : PairJobReturns(r, j)
        \/ \E j \in Jobs : PairGet(r, j)
        \/ PairCopy(r)
        \/ PairCleanup(r)

SpecPair == InitPair /\ [][NextPair]_vars

---------------------------------------------------------------------------
(* Properties of run_ofs, checked under Spec *)

\* the publishing step (lines 93-101) has been reached
PublishReached ==
    pc \in {"copy", "returned"} \/ failure \in {"CopyError", "CleanupRemoveError"}

BothSucceeded == \A j \in Jobs : workers[j].st = "ok"
SomeJobFailed == \E j \in Jobs : workers[j].st = "failed"
Submitted == \A j \in Jobs : workers[j].st # "unsubmitted"

\* the product files returned by the two jobs, and the names published so far
BatchFiles == UNION {{workers[j].out[k] : k \in DOMAIN workers[j].out} : j \in Jobs}
PublishedNames == {d.name : d \in dest_dir}

\* C1: the list handed to the publishing step is the concatenation of the output
\* lists of the default-grid and the subset-grid job, and the publishing step is
\* reached only when both jobs succeeded; when a job failed the publishing step is
\* never reached and a run that has ended has ended with the job's exception.
C1_PublishedListIsConcatenation ==
    /\ PublishReached =>
          /\ BothSucceeded
          /\ s111_file_paths = workers[DefaultJob].out \o workers[SubsetJob].out
    /\ SomeJobFailed =>
          /\ ~PublishReached
          /\ copy_idx = 0
          /\ pc \in Ended => failure = "ConversionError"

C1_Witness ==
    /\ pc = "copy"
    /\ Len(workers[DefaultJob].out) = MaxOut
    /\ Len(workers[SubsetJob].out) > 0
    /\ Len(s111_file_paths) = MaxOut + Len(workers[SubsetJob].out)

\* C2: once both jobs are submitted, run_ofs does not end, normally or with an
\* exception, while one of the two jobs has not yet returned.
C2_EndsOnlyAfterBothReturned ==
    (pc \in Ended /\ Submitted)
        => \A j \in Jobs : workers[j].st \in {"ok", "failed"}

\* C3: no product file is copied to the dissemination directory before both jobs
\* have returned; when a job failed nothing is copied at all and a run that has
\* ended has ended in failure.
C3_NoCopyBeforeBothReturned ==
    /\ (dest_dir # {} \/ copy_idx > 0) => \A j \in Jobs : workers[j].st \in {"ok", "failed"}
    /\ SomeJobFailed => dest_dir = {}
    /\ (SomeJobFailed /\ pc \in Ended) => pc = "raised"

\* the subset-grid job failed after the default-grid job had produced its outputs
C3_Witness ==
    /\ pc = "raised"
    /\ workers[DefaultJob].st = "ok"
    /\ Len(workers[DefaultJob].out) = MaxOut
    /\ workers[SubsetJob].st = "failed"
    /\ \A k \in 1 .. MaxOut : workers[DefaultJob].out[k] \in s111_dir
    /\ dest_dir = {}

\* the dissemination directory holds the product files of both jobs, or none
AtomicPair ==
    \/ PublishedNames = {}
    \/ BothSucceeded /\ {f.name : f \in BatchFiles} \subseteq PublishedNames

\* C4 as stated: in every state in which a run can end, also after a copy failure
\* part-way through the batch, the dissemination directory holds the product files
\* of both jobs or none of them.
C4_AtomicPairInEveryEnd == pc \in Ended => AtomicPair

\* C4 as amended: in every state in which a run ends in success, in a conversion
\* failure or in any failure other than a copy failure, the dissemination directory
\* holds the product files of both jobs or none of them.
C4_AtomicPairUnlessCopyFails ==
    (pc \in Ended /\ failure # "CopyError") => AtomicPair

C4_Witness ==
    /\ pc = "returned"
    /\ Len(workers[DefaultJob].out) > 0
    /\ Len(workers[SubsetJob].out) > 0
    /\ {f.name : f \in BatchFiles} \subseteq PublishedNames

\* C5: output-staging files are removed only after every copy of the batch has
\* succeeded; when a copy failed nothing has been removed and output staging still
\* holds every product file of the batch.
C5_NoCleanupUnlessAllCopied ==
    /\ removed_h5 # {} =>
          /\ copy_idx = Len(s111_file_paths)
          /\ {f.name : f \in BatchFiles} \subseteq PublishedNames
    /\ failure = "CopyError" =>
          /\ removed_h5 = {}
          /\ BatchFiles \subseteq s111_dir
          /\ pc = "raised"

\* a copy failed in the middle of the batch
C5_Witness ==
    /\ failure = "CopyError"
    /\ copy_idx > 0
    /\ copy_idx < Len(s111_file_paths)
    /\ StaleProduct \in s111_dir

\* C9: the cycle time used to fetch the staged inputs is the cycle time passed to
\* both conversion jobs and used for the dissemination path.
C9_OneCycletimePerRun ==
    pc \notin {"line53", "line57", "returned1"} /\ failure # "KeyError" =>
        /\ fetch_cycletime = cycletime
        /\ \A j \in Jobs : workers[j].st # "unsubmitted" => workers[j].cyc = fetch_cycletime
        /\ \A d \in dest_dir : d.dir.ymd = DayOf(fetch_cycletime)

\* C10: when download writes its first file the staging subdirectory exists and
\* holds no *.nc file; afterwards its *.nc files are files this call has written.
C10_NoOldInputAtFirstWrite ==
    /\ (pc = "download" /\ requested = <<>>) =>
          /\ netcdf_dir.exists
          /\ GlobNc(netcdf_dir.files) = {}
    /\ requested # <<>> =>
          /\ netcdf_dir.exists
          /\ GlobNc(netcdf_dir.files) \subseteq
                {Requests(ofs_model, fetch_cycletime)[k].local_file : k \in 1 .. Len(requested)}

\* the subdirectory existed with an old raw input, which is gone at the first write
C10_Witness ==
    /\ pc = "download"
    /\ Len(requested) = 1
    /\ OldInput(ofs_model) \in removed_nc
    /\ OtherFile \in netcdf_dir.files
    /\ Len(local_files) = 1

---------------------------------------------------------------------------
(* Properties of get_latest_cycletime, checked under SpecCycle *)

\* the hours of the profile's cycles
CycleHours == {prof.cycles[i] : i \in DOMAIN prof.cycles}

\* C6: the resolution is None, or a time on the hour whose hour is one of the
\* profile's cycle hours and which the clock has passed by at least file_delay.
C6_ResolvedIsAlignedAndAvailable ==
    res \notin {Unset, None} =>
        /\ MinuteOf(res) = 0
        /\ HourOf(res) \in CycleHours
        /\ now >= res + prof.file_delay

C6_Witness ==
    /\ res \notin {Unset, None}
    /\ DayOf(res) = DayOf(now)
    /\ now < res + prof.file_delay + 1
    /\ prof.file_delay > 0

\* today's and yesterday's cycle times, and those of them that are available
Candidates == {(DayOf(now) - d) * MinutesPerDay + h * MinutesPerHour : d \in {0, 1}, h \in CycleHours}
Qualifying == {c \in Candidates : now >= c + prof.file_delay}

\* C7: the resolution is the latest of today's and yesterday's cycle times c with
\* now >= c + file_delay (inclusive), and None exactly when there is none; also for
\* cycle hours that are not listed in ascending order.
C7_ResolvedIsLatestQualifying ==
    res # Unset =>
        IF Qualifying = {} THEN res = None
        ELSE /\ res \in Qualifying
             /\ \A c \in Qualifying : c <= res

\* unsorted cycle hours, no cycle of today qualifies, yesterday's latest is chosen at
\* exactly its availability time
C7_Witness ==
    /\ prof.cycles = <<18, 0>>
    /\ res \notin {Unset, None}
    /\ DayOf(res) = DayOf(now) - 1
    /\ HourOf(res) = 18
    /\ now = res + prof.file_delay

\* the resolution did not fall back when the clock advanced
NoFallBack == (prev \notin {Unset, None} /\ res # Unset) => (res # None /\ res >= prev)

\* C8 as stated: for every profile, also with a publish delay longer than a day,
\* a later resolution yields a cycle that is not earlier than that of an earlier one.
C8_MonotonicForEveryProfile == NoFallBack

\* yesterday's earliest cycle is available at every time of today
EarliestWithinDay == \E h \in CycleHours : h * MinutesPerHour + prof.file_delay <= MinutesPerDay

\* C8 as amended: for every profile whose earliest cycle hour plus publish delay is
\* at most 24 hours, a later resolution yields a cycle that is not earlier than that
\* of an earlier resolution.
C8_MonotonicWhenEarliestWithinDay == EarliestWithinDay => NoFallBack

\* the resolution moved on to a later cycle when the clock reached its availability
C8_Witness ==
    /\ EarliestWithinDay
    /\ prev \notin {Unset, None}
    /\ res \notin {Unset, None}
    /\ res > prev
    /\ DayOf(res) = DayOf(now)
    /\ DayOf(prev) = DayOf(now) - 1

---------------------------------------------------------------------------
(* Properties of download, of ofs.py main and of the two entry points,     *)
(* checked under SpecMain (C13 and C17 under Spec)                         *)

\* the catalog models whose remote path template carries {forecast_str}
MultiFileModels == {m \in DOMAIN MODELS : TemplateOf(MODELS[m].file_path).fstr}

\* the first n forecast hours of the model were fetched, in order, each under its
\* zero-padded forecast hour, and are the list local_files
FetchedPerHour(n) ==
    LET hours == MODELS[ofs_model].forecast_hours
    IN  /\ n <= Len(hours)
        /\ Len(requested) = n
        /\ Len(local_files) = n
        /\ \A i \in 1 .. n :
              /\ requested[i].path.fstr = forecast_str(hours[i])
              /\ local_files[i].name.fstr = forecast_str(hours[i])

\* C11: for every catalog model whose remote path template carries the forecast
\* hour, the list that a successful download returns has one file for each entry
\* of forecast_hours, in that order, each named with its 3-digit forecast hour.
C11_OneFilePerForecastHour ==
    (pc = "line393" /\ ofs_model \in MultiFileModels)
        => FetchedPerHour(Len(MODELS[ofs_model].forecast_hours))

NoDuplicates(seq) == \A i, j \in DOMAIN seq : i # j => seq[i] # seq[j]

\* C12: no URL is requested twice in a fetch; when a download has failed the fetch
\* has ended with the exception, the failed request is the last one made, no list
\* was returned to a conversion, and no later step requests or stages anything.
C12_FirstFailureAbortsFetch ==
    /\ [](NoDuplicates(requested))
    /\ [](failure = "DownloadError" =>
              /\ pc = "raised"
              /\ Len(requested) = Len(local_files) + 1
              /\ collab_calls = <<>>)
    /\ [][failure = "DownloadError" =>
              (requested' = requested /\ local_files' = local_files)]_vars

\* the third download of a per-hour fetch failed
C12_Witness ==
    /\ failure = "DownloadError"
    /\ ofs_model \in MultiFileModels
    /\ Len(requested) = 3
    /\ Len(local_files) = 2

\* C13: when a download of the fetch failed the run has ended with the exception:
\* no conversion job was submitted and no conversion was called, nothing was
\* copied to the dissemination directory and nothing was removed from output
\* staging.
C13_DownloadFailureAbortsRun ==
    failure = "DownloadError" =>
        /\ pc = "raised"
        /\ \A j \in DOMAIN workers : workers[j].st = "unsubmitted"
        /\ collab_calls = <<>>
        /\ s111_file_paths = <<>>
        /\ copy_idx = 0
        /\ dest_dir = {}
        /\ removed_h5 = {}

\* a download of run_ofs failed after an earlier one had staged its file, with a
\* product file of an earlier run in output staging
C13_Witness ==
    /\ failure = "DownloadError"
    /\ workers # <<>>
    /\ Len(local_files) > 0
    /\ StaleProduct \in s111_dir

\* the catalog models that are published as one aggregate file per cycle
AggregateModels == {"nyofs", "nyofs_fg", "lmofs", "lhofs", "loofs", "lsofs"}

\* the text carries the model id and the cycle date and hour, and no forecast hour
OfModelAndCycleOnly(text, m, t) ==
    /\ text.fstr = Blank
    /\ text.lc = m
    /\ text.uc \in {Blank, Upper(m), Upper("nyofs")}
    /\ text.ymd = DayOf(t)
    /\ text.hh = HourOf(t)

\* C14: for the models published as one aggregate file per cycle, a fetch makes at
\* most one request, the URL and the local file name carry only the model id and
\* the cycle date and hour, and the returned list has exactly one staged file.
C14_OneAggregateFilePerCycle ==
    ofs_model \in AggregateModels =>
        /\ Len(requested) <= 1
        /\ \A i \in DOMAIN requested :
              OfModelAndCycleOnly(requested[i].path, ofs_model, fetch_cycletime)
        /\ \A i \in DOMAIN local_files :
              OfModelAndCycleOnly(local_files[i].name, ofs_model, fetch_cycletime)
        /\ pc = "line393" => (Len(requested) = 1 /\ Len(local_files) = 1)

\* the fetch of a model of the GLOFS template has returned its list
C14_Witness ==
    /\ pc = "line393"
    /\ ofs_model = "lmofs"
    /\ Len(local_files) = 1
    /\ local_files[1] \in netcdf_dir.files

\* the data coding format is none of 1..4, or it is 2 and no index file is named
BadFormat ==
    \/ args.data_coding_format \notin 1 .. 4
    \/ args.data_coding_format = 2 /\ args.index_file_path = "None"

\* C15: a run of ofs.py main (not in build-index mode) for a known model with a
\* data coding format outside 1..4, or with format 2 and no index file, never ends
\* in a successful exit, and when it has ended no staged file was deleted, no file
\* was requested and no directory was created.
C15_BadFormatIsConfigurationError ==
    (BadFormat /\ ~args.build_index /\ pc \in Ended) =>
        /\ exit_code # 0
        /\ removed_nc = {}
        /\ requested = <<>>
        /\ made_dirs = {}

\* the calls of the conversion made so far
ConvertCalls == {i \in DOMAIN collab_calls : collab_calls[i].op = "convert_to_s111"}

\* the paths of a sequence of model-file handles
PathsOf(files) == [k \in DOMAIN files |-> files[k][2]]

\* the fetch of this run has returned its list and the run has ended
EndedAfterFetch ==
    /\ pc \in Ended
    /\ requested # <<>>
    /\ failure # "DownloadError"

\* C16: every conversion call for format 3 has a null index and every call for
\* format 2 a non-null index of the model's type; and when a run for format 3
\* whose inputs were downloaded has ended after the fetch, the conversion was
\* called with a null index and the staged files.
C16_Format3ConvertsWithNullIndex ==
    /\ \A i \in ConvertCalls :
          /\ collab_calls[i].format = 3 => collab_calls[i].index = NullIndex
          /\ collab_calls[i].format = 2 =>
                /\ collab_calls[i].index # NullIndex
                /\ collab_calls[i].index[1][1] = MODELS[ofs_model].model_type
    /\ (args.data_coding_format = 3 /\ EndedAfterFetch) =>
          /\ ConvertCalls # {}
          /\ \A i \in ConvertCalls :
                /\ collab_calls[i].index = NullIndex
                /\ PathsOf(collab_calls[i].files) = local_files

\* C17: a model id that has passed the argument validation of the entry point is
\* a key of MODELS, and no lookup in MODELS fails on the id.
C17_AcceptedIdIsCatalogKey ==
    /\ pc \notin {"ops_main", "main", "usage"} => ofs_model \in DOMAIN MODELS
    /\ failure # "KeyError"

\* C18: the process ends with exit code 1 after a failed argument validation and
\* after an unresolvable cycle time, with a non-zero exit code after every other
\* failure, and with exit code 0 only after main has returned from a completed run.
C18_ExitCodes ==
    /\ pc \in {"usage", "returned1"} => exit_code = 1
    /\ pc = "raised" => exit_code \notin {0, None}
    /\ exit_code = 0 => pc = "returned"

\* C19: with an explicit list of input files and not in build-index mode, no
\* staged file is deleted, no request is made, and every conversion call gets the
\* listed files, all of them and in the order given.
C19_ExplicitFilesAllConverted ==
    (~args.build_index /\ args.model_file_path # NoPaths) =>
        /\ requested = <<>>
        /\ removed_nc = {}
        /\ pc \notin {"hygiene", "download", "line393"}
        /\ \A i \in ConvertCalls :
              PathsOf(collab_calls[i].files) = args.model_file_path

\* the cycle hours of a catalog model (the single hour of wcofs included)
CycleHoursOf(m) ==
    IF m \in SeqCycleModels
    THEN {MODELS[m].cycles[i] : i \in DOMAIN MODELS[m].cycles}
    ELSE {MODELS[m].cycles}

\* C20: the hour of every cycle time handed to download or to the conversion,
\* resolved from the clock or given with -c/--cycletime, is one of the cycle hours
\* of the model's profile.
C20_CycleHourIsProfileCycle ==
    /\ fetch_cycletime # None => HourOf(fetch_cycletime) \in CycleHoursOf(ofs_model)
    /\ \A i \in ConvertCalls : HourOf(collab_calls[i].cyc) \in CycleHoursOf(ofs_model)

---------------------------------------------------------------------------
(* Properties of the catalog, of the publishing step and of the stages *)

\* the sequence s of numbers is strictly increasing
StrictlyIncreasing(s) == \A i \in 1 .. Len(s) - 1 : s[i] < s[i + 1]

\* the profile of the catalog model m is well formed
WellFormedProfile(m) ==
    /\ StrictlyIncreasing(MODELS[m].forecast_hours)
    /\ m \in SeqCycleModels
    /\ \A i \in DOMAIN MODELS[m].cycles : MODELS[m].cycles[i] \in 0 .. 23
    /\ MODELS[m].model_type \in ModelTypes

\* C21: in every reachable state every profile of the catalog MODELS has a strictly
\* increasing forecast_hours sequence, a cycles value that is a sequence of hours
\* within 0..23, and a model_type among roms, fvcom, pom, hycom (stated of the
\* profile each run reads, over runs for every model of the catalog).
C21_CatalogProfilesWellFormed ==
    \A m \in DOMAIN MODELS : ofs_model = m => WellFormedProfile(m)

\* the dissemination directory of the run: the template of line 65 formatted with
\* the cycle time and the upper-cased model id
DisseminationDir == [ymd |-> DayOf(cycletime), model |-> Upper(ofs_model)]

\* C22: every product path of the batch that the publishing step has handled is a
\* file of the dissemination directory formatted from the cycle time and the
\* upper-cased model id, under its own file name, and nothing else is written
\* there; the source file is still in output staging after its copy and stays
\* there while the copies go on and after a copy has failed, until the cleanup.
C22_CopyKeepsSourceUntilCleanup ==
    /\ \A i \in 1 .. copy_idx :
          \E d \in dest_dir :
              /\ d.dir = DisseminationDir
              /\ d.name = s111_file_paths[i].name
    /\ \A d \in dest_dir :
          /\ d.dir = DisseminationDir
          /\ \E i \in 1 .. copy_idx : d.name = s111_file_paths[i].name
    /\ (pc = "copy" \/ failure = "CopyError") =>
          \A i \in 1 .. copy_idx : s111_file_paths[i] \in s111_dir

\* every file of a batch of several files has been copied and the cleanup has not
\* yet run
C22_Witness ==
    /\ pc = "copy"
    /\ copy_idx = Len(s111_file_paths)
    /\ copy_idx > MaxOut
    /\ Cardinality(dest_dir) = copy_idx
    /\ \A i \in 1 .. copy_idx : s111_file_paths[i] \in s111_dir

\* C23: when the run has ended in failure because a conversion job failed, output
\* staging holds none of the product files the other, successful job produced in
\* that run.
C23_FailedRunDiscardsOutputs ==
    (pc = "raised" /\ failure = "ConversionError") =>
        \A j \in Jobs :
            workers[j].st = "ok" =>
                \A k \in DOMAIN workers[j].out : workers[j].out[k] \notin s111_dir

\* the fetch has acted: a directory was made, a file removed or a request made
FetchStarted == made_dirs # {} \/ removed_nc # {} \/ requested # <<>>

SomeJobRunning == \E j \in Jobs : workers[j].st = "running"
SomeJobSubmitted == \E j \in Jobs : workers[j].st # "unsubmitted"

\* the plan of the fetch of the run
FetchPlan == Requests(ofs_model, fetch_cycletime)

\* C25: the stages of one run of run_ofs are strictly ordered.  Both cycle
\* resolutions have ended before the fetch acts; the requests of the fetch are made
\* one at a time in the order of the forecast hours, each ended before the next;
\* every download has ended before a conversion job is submitted, and none is made
\* afterwards; a copy is made only after both conversions have returned; and while
\* a conversion job runs the coordinator takes no step of another stage.
C25_StagesStrictlyOrdered ==
    /\ [](FetchStarted =>
            /\ pc \notin {"ops_main", "line53", "line57"}
            /\ cycletime \notin {None, KeyError}
            /\ fetch_cycletime # KeyError)
    /\ [](requested # <<>> =>
            /\ LET plan == FetchPlan
               IN  /\ Len(requested) <= Len(plan)
                   /\ requested = [k \in 1 .. Len(requested) |-> plan[k].url]
            /\ Len(local_files) <= Len(requested)
            /\ Len(requested) - Len(local_files) <= 1
            /\ Len(local_files) < Len(requested) => failure = "DownloadError")
    /\ [][Len(requested') <= Len(requested) + 1]_vars
    /\ [](SomeJobSubmitted =>
            /\ Submitted
            /\ Len(requested) = Len(FetchPlan)
            /\ Len(local_files) = Len(requested)
            /\ \A j \in Jobs : PathsOf(workers[j].files) = local_files)
    /\ [][SomeJobSubmitted =>
            /\ requested' = requested
            /\ local_files' = local_files
            /\ netcdf_dir' = netcdf_dir
            /\ cycletime' = cycletime]_vars
    /\ []((copy_idx > 0 \/ dest_dir # {} \/ removed_h5 # {}) =>
            \A j \in Jobs : workers[j].st = "ok")
    /\ [](SomeJobRunning => pc \in {"get1", "get2"} \cup Ended)
    /\ [][SomeJobRunning =>
            /\ dest_dir' = dest_dir
            /\ copy_idx' = copy_idx
            /\ removed_h5' = removed_h5
            /\ removed_nc' = removed_nc]_vars

\* both conversion jobs run at the same time, after a fetch of several downloads
C25_Witness ==
    /\ pc = "get1"
    /\ \A j \in Jobs : workers[j].st = "running"
    /\ Len(requested) > 1
    /\ Len(local_files) = Len(requested)

\* the position at which the coordinator waits for the result of job j (line 90)
GetPc(j) == IF j = DefaultJob THEN "get1" ELSE "get2"

\* C26: when every download and both conversion jobs return and the coordinator and
\* the workers are scheduled fairly, every run eventually ends, in success or in
\* failure; the coordinator sets no deadline: while the job it waits for has not
\* returned it stays at that wait, and the publishing step is reached only after
\* both jobs have returned.
C26_RunTerminates ==
    /\ <>(pc \in Ended)
    /\ [][\A j \in Jobs :
            (pc = GetPc(j) /\ workers[j].st = "running") => pc' = GetPc(j)]_vars
    /\ [](PublishReached => \A j \in Jobs : workers[j].st = "ok")

\* a run has ended in success after the clock advanced and both jobs returned files
C26_Witness ==
    /\ pc = "returned"
    /\ ticks = MaxTicks
    /\ \A j \in Jobs : workers[j].st = "ok" /\ workers[j].out # <<>>
    /\ removed_h5 # {}

\* the handle h (an index or a model file) was built by the constructor `kind` of
\* the model type of the run's model
OfOwnType(h, kind) == h[1] = <<MODELS[ofs_model].model_type, kind>>

DownloadEnded ==
    \/ pc \in {"get1", "get2", "copy", "returned"}
    \/ failure \in {"ConversionError", "CopyError", "CleanupRemoveError"}
    \/ pc = "download" /\ fetch_cycletime # None /\ FetchDone

\* C28: from the end of a successful download until the run ends no step deletes,
\* adds or overwrites a file of the input staging subdirectory, and every file the
\* download returned stays there; a staged file is deleted by the hygiene step only.
C28_StagedInputsKeptAfterDownload ==
    /\ [](DownloadEnded =>
            /\ netcdf_dir.exists
            /\ \A i \in DOMAIN local_files : local_files[i] \in netcdf_dir.files)
    /\ [][DownloadEnded => netcdf_dir' = netcdf_dir]_vars
    /\ [][~(netcdf_dir.files \subseteq netcdf_dir'.files) => pc = "hygiene"]_vars

\* the run has ended in success and removed product files, and the staged inputs of
\* several downloads and the other file are still in input staging
C28_Witness ==
    /\ pc = "returned"
    /\ removed_h5 # {}
    /\ Len(local_files) > 1
    /\ \A i \in DOMAIN local_files : local_files[i] \in netcdf_dir.files
    /\ OtherFile \in netcdf_dir.files

\* C29: every file the cleanup has deleted from output staging is a file of the
\* batch that was copied to the dissemination directory in the same run.
C29_CleanupDeletesOnlyPublished ==
    \A f \in removed_h5 :
        \E i \in 1 .. copy_idx :
            /\ s111_file_paths[i] = f
            /\ Dst(ofs_model, cycletime, f) \in dest_dir

\* C30: for every catalog model whose cycles value is a sequence of hours and for
\* every clock value, get_latest_cycletime returns a cycle time, never None: every
\* cycle hour plus file_delay is less than 24 hours, and the result is a cycle of
\* today or of yesterday whose file is available.
C30_CatalogModelsAlwaysResolve ==
    prof \in CatalogProfiles =>
        /\ prof.cycles # <<>>
        /\ \A i \in DOMAIN prof.cycles :
              prof.cycles[i] * MinutesPerHour + prof.file_delay < MinutesPerDay
        /\ res # Unset =>
              /\ res # None
              /\ res >= (DayOf(now) - 1) * MinutesPerDay
              /\ res + prof.file_delay <= now

\* shortly after midnight the latest cycle of the day before is returned for the
\* profile of nyofs, none of today's cycles being available yet
C30_Witness ==
    /\ prof = [cycles |-> MODELS["nyofs"].cycles, file_delay |-> MODELS["nyofs"].file_delay]
    /\ HourOf(now) = 0
    /\ res = DateTimeAt(now, 23) - MinutesPerDay

\* the directory d is the input staging or the output staging directory of the
\* model of run r, or a dissemination directory of that model (of any day)
OwnsDir(r, d) ==
    LET m == runs[r].model
    IN  \/ d \in {NetcdfPath(m), S111Path(m)}
        \/ d.root = DestPath(m, now).root /\ d.model = Upper(m)

\* the directories the steps of run r name
NamedDirs(r) ==
    LET m == runs[r].model
    IN  {NetcdfPath(m), S111Path(m), DestPath(m, runs[r].cyc)}

\* what the file system f holds in the directories of run r
Owned(r, f) ==
    [dirs |-> {d \in f.dirs : OwnsDir(r, d)},
     files |-> {e \in f.files : OwnsDir(r, e.dir)}]

\* C24: for two runs on different model ids, interleaved in any way, the directories
\* of the two runs are different directories, and a step of one run (hygiene,
\* download, conversion output, copy, cleanup) leaves every directory and every
\* file of the directories of the other run as it is.
C24_ExclusiveDirectories ==
    /\ [](\A r \in Runs, q \in Runs :
            r # q => \A d \in NamedDirs(r) \cup fs.dirs : ~(OwnsDir(r, d) /\ OwnsDir(q, d)))
    /\ [](\A r \in Runs : \A d \in NamedDirs(r) : OwnsDir(r, d))
    /\ [][\A r \in Runs :
            runs'[r] = runs[r] => Owned(r, fs') = Owned(r, fs)]_vars

\* run 1 has ended after its cleanup while run 2 is publishing: the products and
\* the staged inputs of run 2 are still where run 2 put them
C24_Witness ==
    /\ runs[1].pc = "returned"
    /\ runs[1].copied > 0
    /\ runs[2].pc = "copy"
    /\ runs[2].copied > 0
    /\ \A i \in DOMAIN runs[2].paths :
          runs[2].paths[i] \in FilesIn(fs, S111Path(runs[2].model))
    /\ FilesIn(fs, NetcdfPath(runs[2].model)) # {}
    /\ GlobH5(FilesIn(fs, S111Path(runs[1].model))) = {}

\* the download of the run has made every request of its plan and each has
\* succeeded, so that download returns its list local_files
DownloadSucceeded ==
    /\ requested # <<>>
    /\ FetchDone
    /\ Len(local_files) = Len(requested)

\* C31: after every successful download the *.nc files of the model's staging
\* subdirectory are exactly the paths of the returned list, and the returned paths
\* are pairwise distinct: no file of an earlier cycle or of an earlier fetch
\* remains, and no download of the fetch overwrites another one.
C31_StagedInputsAreReturnedList ==
    DownloadSucceeded =>
        /\ GlobNc(netcdf_dir.files) = {local_files[i] : i \in DOMAIN local_files}
        /\ NoDuplicates(local_files)
        /\ Cardinality(GlobNc(netcdf_dir.files)) = Len(requested)

\* a download of several files has succeeded in a subdirectory that held a raw
\* input of an earlier cycle, which is gone, and another file, which is kept
C31_Witness ==
    /\ pc = "line393"
    /\ DownloadSucceeded
    /\ Len(local_files) > 2
    /\ OldInput(ofs_model) \in removed_nc
    /\ OldInput(ofs_model) \notin netcdf_dir.files
    /\ OtherFile \in netcdf_dir.files

---------------------------------------------------------------------------
(* cbofs.py, download_and_process: the script chooses the cycle time of the *)
(* run from the clock by its own hour tests (lines 77-94).  The harness     *)
(* runs the script at every minute of the days 1 .. MaxDay, and keeps the   *)
(* cycle time each run has chosen.                                          *)

\* the publish delays, in minutes, that the generic rule is tried with
MaxDelay == 120
Delays == 0 .. MaxDelay

\* datetime.datetime(year, month, day, hour, 0) of the day that starts at minute `day`
At(day, hour) == day + hour * MinutesPerHour

\* lines 79-94: the cycle time chosen when utcnow() returns t
cbofs_cycletime(t) ==
    LET hour == HourOf(t)
        minute == MinuteOf(t)
        today == DayOf(t) * MinutesPerDay
        yesterday == today - MinutesPerDay
    IN  IF hour < 1 /\ minute < 50 THEN At(yesterday, 18)
        ELSE IF hour < 7 \/ (hour = 7 /\ minute < 50) THEN At(today, 0)
        ELSE IF hour < 13 \/ (hour = 13 /\ minute < 50) THEN At(today, 6)
        ELSE IF hour < 19 \/ (hour = 7 /\ minute < 50) THEN At(today, 12)
        ELSE At(today, 18)

\* the script is first run at the start of one of the days
InitCbofs ==
    /\ now \in {day * MinutesPerDay : day \in 1 .. MaxDay}
    /\ prof = NoProfile
    /\ res = Unset
    /\ prev = Unset
    /\ RunIdle
    /\ PairIdle
    /\ CbIdle

\* lines 77-94 of one run of the script: it reads the clock and chooses
CbofsChoose ==
    /\ res = Unset
    /\ res' = cbofs_cycletime(now)
    /\ chosen' = Append(chosen, [now |-> now, cycletime |-> res'])
    /\ UNCHANGED <<now, prof, prev>>
    /\ UNCHANGED runVars
    /\ UNCHANGED mainVars
    /\ UNCHANGED pairVars

NextCbofs == CbofsChoose \/ Tick

SpecCbofs == InitCbofs /\ [][NextCbofs]_vars

\* the generic rule of get_latest_cycletime for the cycles of cbofs and the delay d
GenericCbofs(t, d) == LatestCycletime(t, MODELS["cbofs"].cycles, d)

\* C32: there is one fixed publish delay d such that every cycle time chosen by
\* download_and_process of cbofs.py is the one the generic rule of
\* get_latest_cycletime gives, at the same clock value, for the cycles
\* (0, 6, 12, 18) and the delay d: the latest of today's and yesterday's cycles c
\* with now >= c + d.
C32_CbofsFollowsGenericRule ==
    \E d \in Delays :
        \A i \in DOMAIN chosen : chosen[i].cycletime = GenericCbofs(chosen[i].now, d)

====
